---- MODULE Spec2Model ----
(***************************************************************************)
(* Model of cpp/include/cugraph/utilities/misc_utils.cuh: the host code   *)
(* of compute_offset_aligned_edge_chunks and expand_sparse_offsets and    *)
(* the device operations they queue on a CUDA stream.                     *)
(*                                                                         *)
(* The host thread advances through pc; every thrust algorithm or copy is *)
(* an entry of the in-order queue `stream`, executed by the device one    *)
(* entry at a time (the for_each kernel one element at a time, in any     *)
(* order).  Sequences are 1-based here: C++ offsets[i] is offsets[i + 1]. *)
(*                                                                         *)
(* raft::update_host is cudaMemcpyAsync into pageable host memory (a      *)
(* stack variable or a std::vector): the call returns to the host once    *)
(* the copy has landed, so the host step after it waits for the copy.     *)
(* raft::update_device from a pageable host variable stages the value at  *)
(* the call; the device write happens in stream order.                    *)
(***************************************************************************)
EXTENDS Integers, Sequences, FiniteSets, TLC

\* ---- bounds of the model ----
MaxLen == 4
MaxOff == 4
MaxChunk == 3
MaxOff2 == 2
SizeMod == 16

BaseIdxs == {-1, 0, 2}
OptValues == {0, 1, 2}
OutOfBounds == {0, 1}
Garbage == {-5, 9}
ExampleOffsets == <<5, 8, 12>>
\* the worked examples of the specification: <<offsets, base_idx>>
Examples == {<<ExampleOffsets, 100>>, <<<<0, 3, 3, 5>>, 0>>}

VARIABLES routine, offsets, num_vertices, num_edges, approx_edge_chunk_size,
          base_idx, pc, stream, num_chunks, d_vertex_offsets, d_edge_offsets,
          h_vertex_offsets, h_edge_offsets, num_entries, results, pending, ret,
          val, ndebug, calls

vars == <<routine, offsets, num_vertices, num_edges, approx_edge_chunk_size,
          base_idx, pc, stream, num_chunks, d_vertex_offsets, d_edge_offsets,
          h_vertex_offsets, h_edge_offsets, num_entries, results, pending, ret,
          val, ndebug, calls>>

inputs == <<routine, offsets, num_vertices, num_edges, approx_edge_chunk_size, base_idx,
            val, ndebug, calls>>
chunk_state == <<num_chunks, d_vertex_offsets, d_edge_offsets, h_vertex_offsets,
                 h_edge_offsets, ret>>
expand_state == <<num_entries, results, pending>>

\* ---- helpers ----
Last(s) == s[Len(s)]

NonDecreasing(s) == \A i \in 1..(Len(s) - 1) : s[i] <= s[i + 1]

\* the offset arrays of length 1..MaxLen with entries in 0..MaxOff
OffsetArrays == UNION {[1..n -> 0..MaxOff] : n \in 1..MaxLen}

\* a CSR offset array: ascending, first element 0
ValidOffsets(s) == Len(s) >= 1 /\ s[1] = 0 /\ NonDecreasing(s)

\* chunk sizes: small ones, and the largest size_t value
ChunkSizes == (1..MaxChunk) \cup {SizeMod - 1}

\* ---- pure parts of compute_offset_aligned_edge_chunks ----

\* search_offset_first[i - 1]: the i-th interior target, in size_t
search_offset(i, chunk_size) == (i * chunk_size) % SizeMod

NumChunksFloor(ne, chunk_size) == ne \div chunk_size
NumChunksPlusOne(ne, chunk_size) == ne \div chunk_size + 1
\* num_chunks, in size_t arithmetic
NumChunks(ne, chunk_size) == ((ne + chunk_size - 1) % SizeMod) \div chunk_size

RECURSIVE UpperBoundFrom(_, _, _, _)
UpperBoundFrom(s, first, len, t) ==
  IF len <= 0 THEN first
  ELSE LET half == len \div 2
           mid == first + half
       IN IF s[mid + 1] <= t
          THEN UpperBoundFrom(s, mid + 1, len - half - 1, t)
          ELSE UpperBoundFrom(s, first, half, t)

\* thrust::lower_bound of one value: binary search over [first, first + len)
RECURSIVE LowerBoundFrom(_, _, _, _)
LowerBoundFrom(s, first, len, t) ==
  IF len <= 0 THEN first
  ELSE LET half == len \div 2
           mid == first + half
       IN IF s[mid + 1] < t
          THEN LowerBoundFrom(s, mid + 1, len - half - 1, t)
          ELSE LowerBoundFrom(s, first, half, t)

\* vectorised lower_bound: one output per search value
lower_bound(s, n, chunk_size) ==
  [k \in 1..n |-> LowerBoundFrom(s, 0, Len(s), search_offset(k, chunk_size))]

GatherNoLookup(map, src) == [k \in 1..Len(map) |-> map[k]]
GatherOffByOne(map, src) == [k \in 1..Len(map) |-> IF map[k] >= 1 THEN src[map[k]] ELSE 0]
\* thrust::gather: out[k] = src[map[k]]
gather(map, src) == [k \in 1..Len(map) |-> src[map[k] + 1]]

HostVectorNoBack(n, back) == [k \in 1..n |-> 0]
\* std::vector<T> h(n, 0); h.back() = back;
HostVector(n, back) == [k \in 1..n |-> IF k = n THEN back ELSE 0]

\* raft::update_host(h.data() + 1, d.data(), d.size(), stream)
CopyInto(h, d) == [k \in 1..Len(h) |-> IF 2 <= k /\ k <= Len(d) + 1 THEN d[k - 1] ELSE h[k]]

SingleChunkNoTotals(nv, ne) == <<<<0, nv>>, <<0, 0>>>>
\* the else branch: {0, num_vertices}, {0, num_edges}
SingleChunk(nv, ne) == <<<<0, nv>>, <<0, ne>>>>

MultiChunkFromOne(nc) == nc >= 1
\* line 54: if (num_chunks > 1)
MultiChunk(nc) == nc > 1

\* ---- pure parts of expand_sparse_offsets ----

StoreOne(buf, offset) ==
  IF offset < Len(buf) THEN [buf EXCEPT ![offset + 1] = 1] ELSE buf
AddOffByOne(buf, offset) ==
  IF offset <= Len(buf) /\ offset >= 1 THEN [buf EXCEPT ![offset] = @ + 1] ELSE buf
InBoundsInclusive(offset, size) == offset <= size
\* line 119: offset < static_cast<offset_t>(results.size())
InBounds(offset, size) == offset < size

\* lines 120-121: fetch_add on results[offset]; an offset outside the buffer
\* would write the memory next to it, shown here as an entry outside 1..Len(buf)
FetchAdd(buf, offset) ==
  IF offset + 1 \in DOMAIN buf
  THEN [buf EXCEPT ![offset + 1] = @ + 1]
  ELSE (offset + 1 :> 1) @@ buf

\* the for_each body: if (offset < results.size()) results[offset].fetch_add(1)
AtomicAdd(buf, offset) ==
  IF InBounds(offset, Len(buf)) THEN FetchAdd(buf, offset) ELSE buf

FillSkipped(buf) == buf
\* line 109: thrust::fill(results.begin(), results.end(), idx_t{0})
fill(buf) == [k \in 1..Len(buf) |-> 0]

HasEntriesOrNone(n) == n >= 0
\* line 108: if (num_entries > 0)
HasEntries(n) == n > 0

RECURSIVE PrefixSum(_, _)
PrefixSum(s, k) == IF k = 0 THEN 0 ELSE PrefixSum(s, k - 1) + s[k]

ExclusiveScan(s) == [k \in 1..Len(s) |-> PrefixSum(s, k - 1)]
\* thrust::inclusive_scan in place
inclusive_scan(s) == [k \in 1..Len(s) |-> PrefixSum(s, k)]

\* ---- to_thrust_optional ----

\* std::optional<T> is <<>> or <<v>>; thrust::optional<T> is a record
HasValue(v) == Len(v) > 0

ToThrustOptionalByTruth(v) ==
  IF HasValue(v) /\ v[1] # 0 THEN [has_value |-> TRUE, value |-> v[1]]
  ELSE [has_value |-> FALSE]
\* lines 91-93: ret{nullopt}; if (val) { ret = *val; }
to_thrust_optional(v) ==
  IF HasValue(v) THEN [has_value |-> TRUE, value |-> v[1]] ELSE [has_value |-> FALSE]

AssertSizeNonNegative(offs) == Len(offs) >= 0
\* line 101: the condition of assert(offsets.size() > 0)
AssertCondition(offs) == Len(offs) > 0

\* ---- initial states: one call of one routine ----
InitChunks ==
  /\ routine = "chunks"
  /\ offsets \in {s \in OffsetArrays : ValidOffsets(s)}
  /\ num_vertices = Len(offsets) - 1
  /\ num_edges = Last(offsets)
  /\ approx_edge_chunk_size \in ChunkSizes
  /\ base_idx = 0
  /\ val = <<>>
  /\ ndebug = TRUE

InitExpand ==
  /\ routine = "expand"
  /\ \/ offsets \in OffsetArrays \cup {<<>>} /\ base_idx \in BaseIdxs
     \/ \E e \in Examples : offsets = e[1] /\ base_idx = e[2]
  /\ num_vertices = 0
  /\ num_edges = 0
  /\ approx_edge_chunk_size = 1
  /\ val = <<>>
  \* the build flag matters at line 101 only: builds without NDEBUG are
  \* explored for the offset arrays of at most one entry
  /\ ndebug \in (IF Len(offsets) <= 1 THEN BOOLEAN ELSE {TRUE})

InitOptional ==
  /\ routine = "optional"
  /\ val \in {<<>>} \cup {<<v>> : v \in OptValues}
  /\ offsets = <<0>>
  /\ num_vertices = 0
  /\ num_edges = 0
  /\ approx_edge_chunk_size = 1
  /\ base_idx = 0
  /\ ndebug = TRUE

Init ==
  /\ InitChunks \/ InitExpand \/ InitOptional
  /\ calls = <<>>
  /\ pc = "start"
  /\ stream = <<>>
  /\ num_chunks = 0
  /\ d_vertex_offsets = <<>>
  /\ d_edge_offsets = <<>>
  /\ h_vertex_offsets = <<>>
  /\ h_edge_offsets = <<>>
  /\ num_entries = 0
  /\ results = <<>>
  /\ pending = {}
  /\ ret = <<>>

\* an operation issued on the stream goes to the back of its queue
Enqueue(op) == stream' = Append(stream, op)

CopyNotAwaited == TRUE
CopyNeverLands == FALSE
\* the copy queued by the last raft::update_host has landed in host memory
CopyLanded == stream = <<>>

\* handle.sync_stream(): every queued operation has completed
StreamIdle == stream = <<>>

\* ---- host steps of compute_offset_aligned_edge_chunks ----

\* line 52
ComputeNumChunks ==
  /\ routine = "chunks" /\ pc = "start"
  /\ num_chunks' = NumChunks(num_edges, approx_edge_chunk_size)
  /\ pc' = "branch"
  /\ UNCHANGED <<inputs, stream, d_vertex_offsets, d_edge_offsets, h_vertex_offsets,
                 h_edge_offsets, ret, expand_state>>

\* lines 54-61: allocate d_vertex_offsets (uninitialised) and queue the search
QueueLowerBound ==
  /\ routine = "chunks" /\ pc = "branch" /\ MultiChunk(num_chunks)
  /\ \E g \in Garbage : d_vertex_offsets' = [k \in 1..(num_chunks - 1) |-> g]
  /\ Enqueue("lower_bound")
  /\ pc' = "gather"
  /\ UNCHANGED <<inputs, num_chunks, d_edge_offsets, h_vertex_offsets, h_edge_offsets,
                 ret, expand_state>>

\* lines 62-67: allocate d_edge_offsets (uninitialised) and queue the gather
QueueGather ==
  /\ routine = "chunks" /\ pc = "gather"
  /\ \E g \in Garbage : d_edge_offsets' = [k \in 1..Len(d_vertex_offsets) |-> g]
  /\ Enqueue("gather")
  /\ pc' = "h_edge"
  /\ UNCHANGED <<inputs, num_chunks, d_vertex_offsets, h_vertex_offsets, h_edge_offsets,
                 ret, expand_state>>

\* lines 68-71: build h_edge_offsets and queue the device-to-host copy
UpdateHostEdge ==
  /\ routine = "chunks" /\ pc = "h_edge"
  /\ h_edge_offsets' = HostVector(num_chunks + 1, num_edges)
  /\ Enqueue("copy_edge")
  /\ pc' = "h_vertex"
  /\ UNCHANGED <<inputs, num_chunks, d_vertex_offsets, d_edge_offsets, h_vertex_offsets,
                 ret, expand_state>>

\* lines 72-77: build h_vertex_offsets and queue the device-to-host copy
UpdateHostVertex ==
  /\ routine = "chunks" /\ pc = "h_vertex"
  /\ CopyLanded
  /\ h_vertex_offsets' = HostVector(num_chunks + 1, num_vertices)
  /\ Enqueue("copy_vertex")
  /\ pc' = "sync"
  /\ UNCHANGED <<inputs, num_chunks, d_vertex_offsets, d_edge_offsets, h_edge_offsets,
                 ret, expand_state>>

SyncStreamNoWait ==
  /\ routine = "chunks" /\ pc = "sync"
  /\ pc' = "return"
  /\ UNCHANGED <<inputs, stream, chunk_state, expand_state>>

\* line 79
SyncStream ==
  /\ routine = "chunks" /\ pc = "sync"
  /\ CopyLanded
  /\ StreamIdle
  /\ pc' = "return"
  /\ UNCHANGED <<inputs, stream, chunk_state, expand_state>>

\* line 81
ReturnChunks ==
  /\ routine = "chunks" /\ pc = "return"
  /\ ret' = <<h_vertex_offsets, h_edge_offsets>>
  /\ pc' = "done"
  /\ UNCHANGED <<inputs, stream, num_chunks, d_vertex_offsets, d_edge_offsets,
                 h_vertex_offsets, h_edge_offsets, expand_state>>

\* lines 82-85
ReturnSingleChunk ==
  /\ routine = "chunks" /\ pc = "branch" /\ ~MultiChunk(num_chunks)
  /\ ret' = SingleChunk(num_vertices, num_edges)
  /\ pc' = "done"
  /\ UNCHANGED <<inputs, stream, num_chunks, d_vertex_offsets, d_edge_offsets,
                 h_vertex_offsets, h_edge_offsets, expand_state>>

\* ---- device steps of compute_offset_aligned_edge_chunks ----

\* lines 56-61
DevLowerBound ==
  /\ stream # <<>> /\ Head(stream) = "lower_bound"
  /\ d_vertex_offsets' = lower_bound(offsets, Len(d_vertex_offsets), approx_edge_chunk_size)
  /\ stream' = Tail(stream)
  /\ UNCHANGED <<inputs, pc, num_chunks, d_edge_offsets, h_vertex_offsets, h_edge_offsets,
                 ret, expand_state>>

\* lines 63-67
DevGather ==
  /\ stream # <<>> /\ Head(stream) = "gather"
  /\ d_edge_offsets' = gather(d_vertex_offsets, offsets)
  /\ stream' = Tail(stream)
  /\ UNCHANGED <<inputs, pc, num_chunks, d_vertex_offsets, h_vertex_offsets, h_edge_offsets,
                 ret, expand_state>>

\* lines 70-71
DevCopyEdge ==
  /\ stream # <<>> /\ Head(stream) = "copy_edge"
  /\ h_edge_offsets' = CopyInto(h_edge_offsets, d_edge_offsets)
  /\ stream' = Tail(stream)
  /\ UNCHANGED <<inputs, pc, num_chunks, d_vertex_offsets, d_edge_offsets, h_vertex_offsets,
                 ret, expand_state>>

\* lines 74-77
DevCopyVertex ==
  /\ stream # <<>> /\ Head(stream) = "copy_vertex"
  /\ h_vertex_offsets' = CopyInto(h_vertex_offsets, d_vertex_offsets)
  /\ stream' = Tail(stream)
  /\ UNCHANGED <<inputs, pc, num_chunks, d_vertex_offsets, d_edge_offsets, h_edge_offsets,
                 ret, expand_state>>

\* ---- host steps of expand_sparse_offsets ----

\* line 101 in a build without NDEBUG: the assertion fails and the process aborts
AssertFails ==
  /\ routine = "expand" /\ pc = "start"
  /\ ~ndebug /\ ~AssertCondition(offsets)
  /\ pc' = "abort"
  /\ UNCHANGED <<inputs, stream, chunk_state, expand_state>>

\* lines 88-94
ToThrustOptional ==
  /\ routine = "optional" /\ pc = "start"
  /\ ret' = to_thrust_optional(val)
  /\ pc' = "done"
  /\ UNCHANGED <<inputs, stream, num_chunks, d_vertex_offsets, d_edge_offsets,
                 h_vertex_offsets, h_edge_offsets, expand_state>>

\* lines 103-104: num_entries{0}; queue the read of offsets[size - 1]
UpdateHostNumEntries ==
  /\ routine = "expand" /\ pc = "start"
  /\ ndebug \/ AssertCondition(offsets)
  /\ num_entries' = 0
  /\ Enqueue("read_last")
  /\ pc' = "alloc"
  /\ UNCHANGED <<inputs, chunk_state, results, pending>>

\* line 106: results(num_entries, stream_view), uninitialised
AllocResults ==
  /\ routine = "expand" /\ pc = "alloc"
  /\ CopyLanded
  /\ \E g \in Garbage : results' = [k \in 1..num_entries |-> g]
  /\ pc' = "branch"
  /\ UNCHANGED <<inputs, stream, chunk_state, num_entries, pending>>

\* lines 108-109
QueueFill ==
  /\ routine = "expand" /\ pc = "branch" /\ HasEntries(num_entries)
  /\ Enqueue("fill")
  /\ pc' = "seed"
  /\ UNCHANGED <<inputs, chunk_state, expand_state>>

\* line 111, base_idx != 0: base_idx is staged at the call
QueueSeed ==
  /\ routine = "expand" /\ pc = "seed" /\ base_idx # 0
  /\ Enqueue("seed")
  /\ pc' = "for_each"
  /\ UNCHANGED <<inputs, chunk_state, expand_state>>

\* line 111, base_idx == 0
SkipSeed ==
  /\ routine = "expand" /\ pc = "seed" /\ base_idx = 0
  /\ pc' = "for_each"
  /\ UNCHANGED <<inputs, stream, chunk_state, expand_state>>

QueueForEachUnordered ==
  /\ routine = "expand" /\ pc = "for_each"
  /\ stream' = <<"for_each">> \o stream
  /\ pending' = 2..Len(offsets)
  /\ pc' = "scan"
  /\ UNCHANGED <<inputs, chunk_state, num_entries, results>>

\* lines 113-123: one work item per element of [offsets.begin() + 1, offsets.end())
QueueForEach ==
  /\ routine = "expand" /\ pc = "for_each"
  /\ Enqueue("for_each")
  /\ pending' = 2..Len(offsets)
  /\ pc' = "scan"
  /\ UNCHANGED <<inputs, chunk_state, num_entries, results>>

\* lines 124-125
QueueScan ==
  /\ routine = "expand" /\ pc = "scan"
  /\ Enqueue("scan")
  /\ pc' = "return"
  /\ UNCHANGED <<inputs, chunk_state, expand_state>>

\* line 128 after the if body
ReturnResults ==
  /\ routine = "expand" /\ pc = "return"
  /\ pc' = "done"
  /\ UNCHANGED <<inputs, stream, chunk_state, expand_state>>

\* line 128 when num_entries == 0
ReturnEmpty ==
  /\ routine = "expand" /\ pc = "branch" /\ ~HasEntries(num_entries)
  /\ pc' = "done"
  /\ UNCHANGED <<inputs, stream, chunk_state, expand_state>>

\* ---- device steps of expand_sparse_offsets ----

\* line 104; with an empty span the read is before the buffer and yields anything
DevReadLast ==
  /\ stream # <<>> /\ Head(stream) = "read_last"
  /\ \/ Len(offsets) > 0 /\ num_entries' = Last(offsets)
     \/ Len(offsets) = 0 /\ num_entries' \in OutOfBounds
  /\ stream' = Tail(stream)
  /\ UNCHANGED <<inputs, pc, chunk_state, results, pending>>

\* line 109
DevFill ==
  /\ stream # <<>> /\ Head(stream) = "fill"
  /\ results' = fill(results)
  /\ stream' = Tail(stream)
  /\ UNCHANGED <<inputs, pc, chunk_state, num_entries, pending>>

\* line 111
DevSeed ==
  /\ stream # <<>> /\ Head(stream) = "seed"
  /\ results' = [results EXCEPT ![1] = base_idx]
  /\ stream' = Tail(stream)
  /\ UNCHANGED <<inputs, pc, chunk_state, num_entries, pending>>

\* lines 117-123: one element of the for_each, in any order
DevIncrement(i) ==
  /\ stream # <<>> /\ Head(stream) = "for_each"
  /\ i \in pending
  /\ results' = AtomicAdd(results, offsets[i])
  /\ pending' = pending \ {i}
  /\ UNCHANGED <<inputs, pc, stream, chunk_state, num_entries>>

\* the for_each kernel completes when every element has run
DevForEachDone ==
  /\ stream # <<>> /\ Head(stream) = "for_each"
  /\ pending = {}
  /\ stream' = Tail(stream)
  /\ UNCHANGED <<inputs, pc, chunk_state, expand_state>>

DevScanIntoOffsets ==
  /\ stream # <<>> /\ Head(stream) = "scan"
  /\ offsets' = inclusive_scan(results)
  /\ stream' = Tail(stream)
  /\ UNCHANGED <<routine, num_vertices, num_edges, approx_edge_chunk_size, base_idx,
                 val, ndebug, calls, pc, chunk_state, expand_state>>

\* lines 124-125
DevScan ==
  /\ stream # <<>> /\ Head(stream) = "scan"
  /\ results' = inclusive_scan(results)
  /\ stream' = Tail(stream)
  /\ UNCHANGED <<inputs, pc, chunk_state, num_entries, pending>>

Next ==
  \/ ComputeNumChunks \/ QueueLowerBound \/ QueueGather \/ UpdateHostEdge
  \/ UpdateHostVertex \/ SyncStream \/ ReturnChunks \/ ReturnSingleChunk
  \/ DevLowerBound \/ DevGather \/ DevCopyEdge \/ DevCopyVertex
  \/ AssertFails \/ ToThrustOptional
  \/ UpdateHostNumEntries \/ AllocResults \/ QueueFill \/ QueueSeed \/ SkipSeed
  \/ QueueForEach \/ QueueScan \/ ReturnResults \/ ReturnEmpty
  \/ DevReadLast \/ DevFill \/ DevSeed \/ DevForEachDone \/ DevScan
  \/ \E i \in 2..(MaxLen + 1) : DevIncrement(i)

Spec == Init /\ [][Next]_vars

\* ---- the build with the synchronising thrust policy ----

\* rmm::exec_policy and handle.get_thrust_policy() are thrust::cuda::par on the
\* stream: a thrust algorithm called with them returns to the host only when
\* the stream has run it.  Spec leaves the host free to run ahead of the
\* device; SpecSync makes the host statement after each thrust call wait.
ThrustReturned == stream = <<>>

\* the host statements of both routines, each after the call before it returned
HostSync ==
  \/ ComputeNumChunks \/ QueueLowerBound
  \/ (ThrustReturned /\ QueueGather)
  \/ (ThrustReturned /\ UpdateHostEdge)
  \/ UpdateHostVertex \/ SyncStream \/ ReturnChunks \/ ReturnSingleChunk
  \/ AssertFails \/ ToThrustOptional
  \/ UpdateHostNumEntries \/ AllocResults \/ QueueFill
  \/ (ThrustReturned /\ QueueSeed)
  \/ (ThrustReturned /\ SkipSeed)
  \/ QueueForEach
  \/ (ThrustReturned /\ QueueScan)
  \/ (ThrustReturned /\ ReturnResults)
  \/ ReturnEmpty

Device ==
  \/ DevLowerBound \/ DevGather \/ DevCopyEdge \/ DevCopyVertex
  \/ DevReadLast \/ DevFill \/ DevSeed \/ DevForEachDone \/ DevScan
  \/ \E i \in 2..(MaxLen + 1) : DevIncrement(i)

NextSync == HostSync \/ Device

SpecSync == Init /\ [][NextSync]_vars

\* ---- observation points ----

\* the call has returned and the work it queued has run
ChunksReturned == routine = "chunks" /\ pc = "done"
ExpandReturned == routine = "expand" /\ pc = "done" /\ stream = <<>>

TypeOK ==
  /\ routine \in {"chunks", "expand", "optional", "two_calls"}
  /\ pc \in {"start", "branch", "gather", "h_edge", "h_vertex", "sync", "return",
             "alloc", "seed", "for_each", "scan", "done", "abort"}
  /\ Len(stream) <= 4

\* ---- vocabulary of the properties ----

\* C++ offsets[i]
Off(i) == offsets[i + 1]

vertex_boundary == ret[1]
edge_boundary == ret[2]

\* ceil(a / b) as a number, independent of the code's arithmetic
CeilDiv(a, b) == CHOOSE q \in 0..a : q * b >= a /\ \A r \in 0..a : r * b >= a => q <= r

Max(a, b) == IF a >= b THEN a ELSE b

\* C1: for a non-decreasing offset array with offsets[0] = 0 and any base_idx,
\* expand_sparse_offsets returns a sequence of length offsets[last] whose
\* position j holds base_idx + i for the unique group i with
\* offsets[i] <= j < offsets[i+1].
C1_ExpandContract ==
  (ExpandReturned /\ ValidOffsets(offsets)) =>
    /\ Len(results) = Last(offsets)
    /\ \A j \in 0..(Last(offsets) - 1) :
         \E i \in 0..(Len(offsets) - 2) :
           /\ Off(i) <= j /\ j < Off(i + 1)
           /\ results[j + 1] = base_idx + i
           /\ \A i2 \in 0..(Len(offsets) - 2) :
                (Off(i2) <= j /\ j < Off(i2 + 1)) => i2 = i

C1_Witness ==
  /\ ExpandReturned /\ ValidOffsets(offsets)
  /\ base_idx # 0
  /\ Len(results) >= 3
  /\ results[1] = base_idx
  /\ results[Len(results)] = base_idx + 2

\* C2 as stated: both returned sequences have length num_chunks + 1 with
\* num_chunks = ceil(num_edges / approx_edge_chunk_size).
C2_Original ==
  ChunksReturned =>
    /\ Len(vertex_boundary) = CeilDiv(num_edges, approx_edge_chunk_size) + 1
    /\ Len(edge_boundary) = CeilDiv(num_edges, approx_edge_chunk_size) + 1

\* C2 amended: both returned sequences have length
\* max(ceil(num_edges / approx_edge_chunk_size), 1) + 1; with num_edges = 0
\* the length is 2, not 1.
C2_Length ==
  ChunksReturned =>
    /\ Len(vertex_boundary) = Max(CeilDiv(num_edges, approx_edge_chunk_size), 1) + 1
    /\ Len(edge_boundary) = Max(CeilDiv(num_edges, approx_edge_chunk_size), 1) + 1

C2_Witness ==
  /\ ChunksReturned
  /\ CeilDiv(num_edges, approx_edge_chunk_size) = 3
  /\ Len(vertex_boundary) = 4 /\ Len(edge_boundary) = 4

\* C3: the vertex boundaries start with 0 and end with num_vertices, the edge
\* boundaries start with 0 and end with num_edges, on both paths.
C3_Endpoints ==
  ChunksReturned =>
    /\ vertex_boundary[1] = 0 /\ Last(vertex_boundary) = num_vertices
    /\ edge_boundary[1] = 0 /\ Last(edge_boundary) = num_edges

C3_Witness ==
  /\ ChunksReturned /\ num_chunks > 1
  /\ num_vertices >= 2 /\ num_edges >= 2
  /\ Last(vertex_boundary) = num_vertices /\ Last(edge_boundary) = num_edges

\* C4: both boundary sequences are non-decreasing over their whole length,
\* the step to the final entry included.
C4_NonDecreasing ==
  ChunksReturned => NonDecreasing(vertex_boundary) /\ NonDecreasing(edge_boundary)

C4_Witness ==
  /\ ChunksReturned /\ num_chunks > 1
  /\ edge_boundary[Len(edge_boundary) - 1] > 0
  /\ edge_boundary[Len(edge_boundary) - 1] < num_edges
  /\ vertex_boundary[Len(vertex_boundary) - 1] < num_vertices

\* C5: for every index i of the returned sequences,
\* edge_boundary[i] = offsets[vertex_boundary[i]].
C5_Consistent ==
  ChunksReturned =>
    \A i \in 1..Len(vertex_boundary) :
      /\ vertex_boundary[i] \in 0..num_vertices
      /\ i \in 1..Len(edge_boundary)
      /\ edge_boundary[i] = Off(vertex_boundary[i])

C5_Witness ==
  /\ ChunksReturned /\ num_chunks > 2
  /\ \E i \in 2..(Len(vertex_boundary) - 1) :
       /\ edge_boundary[i] = Off(vertex_boundary[i])
       /\ edge_boundary[i] > search_offset(i - 1, approx_edge_chunk_size)

\* C6: whenever num_edges <= approx_edge_chunk_size the result is exactly
\* ([0, num_vertices], [0, num_edges]).
C6_SingleChunk ==
  (ChunksReturned /\ num_edges <= approx_edge_chunk_size) =>
    ret = <<<<0, num_vertices>>, <<0, num_edges>>>>

C6_Witness ==
  /\ ChunksReturned
  /\ num_edges = approx_edge_chunk_size
  /\ num_vertices >= 2
  /\ ret = <<<<0, num_vertices>>, <<0, num_edges>>>>

\* C7: on the multi-chunk path, for k in 1..num_chunks-1, vertex_boundary[k]
\* is the smallest index v in 0..num_vertices with
\* offsets[v] >= k * approx_edge_chunk_size, and
\* offsets[vertex_boundary[k] - 1] < k * approx_edge_chunk_size <= edge_boundary[k].
C7_LowerBound ==
  (ChunksReturned /\ num_chunks > 1) =>
    \A k \in 1..(num_chunks - 1) :
      LET v == vertex_boundary[k + 1]
          t == k * approx_edge_chunk_size
      IN /\ v \in 1..num_vertices
         /\ Off(v) >= t
         /\ \A u \in 0..(v - 1) : Off(u) < t
         /\ Off(v - 1) < t
         /\ t <= edge_boundary[k + 1]

C7_Witness ==
  /\ ChunksReturned /\ num_chunks > 2
  /\ \E k \in 1..(num_chunks - 1) :
       /\ Off(vertex_boundary[k + 1]) > k * approx_edge_chunk_size
       /\ vertex_boundary[k + 1] >= 2

\* C8: a chunk never splits a group: every group with at least one edge lies
\* in exactly one chunk's edge range, and the half-open chunk ranges tile
\* [0, num_edges) and [0, num_vertices) with no gap and no overlap.
C8_NoSplit ==
  ChunksReturned =>
    LET n == Len(edge_boundary) - 1
    IN /\ Len(vertex_boundary) = n + 1
       /\ \A g \in 0..(num_vertices - 1) :
            Off(g) < Off(g + 1) =>
              Cardinality({i \in 1..n : edge_boundary[i] <= Off(g)
                                        /\ Off(g + 1) <= edge_boundary[i + 1]}) = 1
       /\ \A e \in 0..(num_edges - 1) :
            Cardinality({i \in 1..n : edge_boundary[i] <= e /\ e < edge_boundary[i + 1]}) = 1
       /\ \A v \in 0..(num_vertices - 1) :
            Cardinality({i \in 1..n : vertex_boundary[i] <= v /\ v < vertex_boundary[i + 1]}) = 1

C8_Witness ==
  /\ ChunksReturned /\ num_chunks > 1
  /\ \E g \in 0..(num_vertices - 1) :
       /\ Off(g + 1) - Off(g) >= 2
       /\ \E k \in 1..(num_chunks - 1) :
            Off(g) < k * approx_edge_chunk_size /\ k * approx_edge_chunk_size < Off(g + 1)

\* C9 as stated: for offsets = [5, 8, 12] and base_idx = 100 the result has
\* length 12, its first five entries are 100 and positions 5, 6, 7 hold 101.
C9_Original ==
  (ExpandReturned /\ offsets = ExampleOffsets /\ base_idx = 100) =>
    /\ Len(results) = 12
    /\ \A j \in 1..5 : results[j] = 100
    /\ \A j \in 6..8 : results[j] = 101

\* C9 amended: for offsets = [5, 8, 12] and base_idx = 100 the result has
\* length 12, positions 0..7 hold 100 and positions 8..11 hold 101.
C9_Example ==
  (ExpandReturned /\ offsets = ExampleOffsets /\ base_idx = 100) =>
    /\ Len(results) = 12
    /\ \A j \in 1..8 : results[j] = 100
    /\ \A j \in 9..12 : results[j] = 101

C9_Witness ==
  /\ ExpandReturned /\ offsets = ExampleOffsets /\ base_idx = 100
  /\ Len(results) = 12

\* C10 as stated: for every valid (non-decreasing, non-empty) offset array, if
\* offsets[i] = offsets[i+1] then base_idx + i occurs at no position of the
\* result.
C10_Original ==
  (ExpandReturned /\ NonDecreasing(offsets)) =>
    \A i \in 0..(Len(offsets) - 2) :
      Off(i) = Off(i + 1) => \A j \in 1..Len(results) : results[j] # base_idx + i

\* C10 amended: for every non-decreasing offset array, if
\* offsets[i] = offsets[i+1] and either i >= 1 or offsets[0] = 0, then
\* base_idx + i occurs at no position of the result; an empty group 0 with
\* offsets[0] > 0 still gets positions 0..offsets[0]-1.
C10_EmptyGroup ==
  (ExpandReturned /\ NonDecreasing(offsets)) =>
    \A i \in 0..(Len(offsets) - 2) :
      (Off(i) = Off(i + 1) /\ (i >= 1 \/ Off(0) = 0)) =>
        \A j \in 1..Len(results) : results[j] # base_idx + i

C10_Witness ==
  /\ ExpandReturned
  /\ offsets = <<0, 3, 3, 5>> /\ base_idx = 0
  /\ results = <<0, 0, 0, 2, 2>>

\* the operations queued on the stream so far that have not yet run
Queued(op) == \E k \in 1..Len(stream) : stream[k] = op

\* C11: whenever the last offset is 0, expand_sparse_offsets returns an empty
\* sequence and issues no fill, no seed of position 0, no increment and no
\* scan, for every base_idx.
C11_EmptyResult ==
  (routine = "expand" /\ Len(offsets) >= 1 /\ Last(offsets) = 0) =>
    /\ ~Queued("fill") /\ ~Queued("seed") /\ ~Queued("for_each") /\ ~Queued("scan")
    /\ pending = {}
    /\ results = <<>>
    /\ pc \notin {"seed", "for_each", "scan", "return"}

C11_Witness ==
  /\ ExpandReturned
  /\ Len(offsets) >= 3 /\ Last(offsets) = 0
  /\ base_idx # 0
  /\ results = <<>>

\* C12: for a CSR offset array with offsets[0] = 0, the number of result
\* positions holding base_idx + i equals offsets[i+1] - offsets[i] for every
\* group i, and the running sum of these counts reproduces the offsets.
C12_InverseHistogram ==
  (ExpandReturned /\ ValidOffsets(offsets)) =>
    /\ \A i \in 0..(Len(offsets) - 2) :
         Cardinality({j \in 1..Len(results) : results[j] = base_idx + i})
           = Off(i + 1) - Off(i)
    /\ \A i \in 0..(Len(offsets) - 1) :
         Cardinality({j \in 1..Len(results) :
                        base_idx <= results[j] /\ results[j] < base_idx + i}) = Off(i)
    /\ \A j \in 1..Len(results) :
         base_idx <= results[j] /\ results[j] < base_idx + Len(offsets) - 1

C12_Witness ==
  /\ ExpandReturned /\ ValidOffsets(offsets)
  /\ Len(offsets) = 4
  /\ Off(1) - Off(0) >= 2 /\ Off(2) = Off(1) /\ Off(3) - Off(2) >= 2
  /\ Cardinality({j \in 1..Len(results) : results[j] = base_idx + 2}) = Off(3) - Off(2)

\* C18: to_thrust_optional preserves presence and value: the result is absent
\* exactly when the input is absent, and a present input gives a present
\* result with the same value.
C18_OptionalBridge ==
  (routine = "optional" /\ pc = "done") =>
    /\ ret.has_value <=> (val # <<>>)
    /\ val # <<>> => ret.value = val[1]

C18_Witness ==
  /\ routine = "optional" /\ pc = "done"
  /\ val = <<0>>
  /\ ret.has_value /\ ret.value = 0

\* C19 as stated: the precondition offsets.size() > 0 is not checked and a
\* call with an empty offset array is never detected or reported as a fault.
C19_Original ==
  (routine = "expand" /\ Len(offsets) = 0) => pc # "abort"

\* C19 amended: the precondition is checked only by the assert of line 101:
\* in a build with NDEBUG a call with an empty offset array is not detected
\* and runs on; in a build without NDEBUG the assert stops the call before
\* anything is read or queued.
C19_AssertOnly ==
  (routine = "expand" /\ Len(offsets) = 0) =>
    /\ ndebug => pc # "abort"
    /\ ~ndebug => (pc \in {"start", "abort"} /\ stream = <<>> /\ results = <<>>)
    /\ (~ndebug /\ pc = "start") => ENABLED AssertFails

C19_Witness ==
  /\ routine = "expand" /\ Len(offsets) = 0
  /\ ndebug
  /\ pc = "done" /\ stream = <<>>
  /\ Len(results) = 1

\* ---- the routines run alone, one operation after the other ----

RECURSIVE AddInIndexOrder(_, _, _)
AddInIndexOrder(buf, offs, i) ==
  IF i > Len(offs) THEN buf ELSE AddInIndexOrder(AtomicAdd(buf, offs[i]), offs, i + 1)

ExpandInOrder(offs, base) ==
  IF HasEntries(Last(offs))
  THEN LET zeroed == [k \in 1..Last(offs) |-> 0]
           seeded == [zeroed EXCEPT ![1] = base]
       IN inclusive_scan(AddInIndexOrder(seeded, offs, 2))
  ELSE <<>>

ChunksInOrder(offs, nv, ne, chunk_size) ==
  LET nc == NumChunks(ne, chunk_size)
      dv == lower_bound(offs, nc - 1, chunk_size)
  IN IF nc > 1
     THEN <<CopyInto(HostVector(nc + 1, nv), dv),
            CopyInto(HostVector(nc + 1, ne), gather(dv, offs))>>
     ELSE SingleChunk(nv, ne)

\* C13: both routines are deterministic: the output is the same for the same
\* inputs, whatever the interleaving of the device element operations and
\* whatever the memory held before; it is the output of the in-order run.
C13_Deterministic ==
  /\ (ExpandReturned /\ Len(offsets) >= 1) => results = ExpandInOrder(offsets, base_idx)
  /\ ChunksReturned =>
       ret = ChunksInOrder(offsets, num_vertices, num_edges, approx_edge_chunk_size)

C13_Witness ==
  /\ ExpandReturned
  /\ Len(offsets) = 4 /\ Off(1) = Off(2) /\ Off(1) >= 1 /\ Off(2) < Off(3)
  /\ base_idx # 0
  /\ results = ExpandInOrder(offsets, base_idx)

C15_StreamOrder ==
  [][/\ (pending' # pending /\ pending' \subseteq pending) =>
          (~Queued("fill") /\ ~Queued("seed") /\ Head(stream) = "for_each")
     /\ (Queued("scan") /\ \A k \in 1..Len(stream') : stream'[k] # "scan") =>
          (pending = {} /\ ~Queued("for_each") /\ ~Queued("fill") /\ ~Queued("seed"))
    ]_vars

C15_Witness ==
  /\ routine = "expand" /\ base_idx # 0
  /\ stream = <<"for_each", "scan">>
  /\ pending # {} /\ pending # 2..Len(offsets)
  /\ results[1] = base_idx

\* C17: on the multi-chunk path compute_offset_aligned_edge_chunks returns
\* only after all the device work it queued has completed, so every interior
\* entry of both host sequences holds its final value at the return.
C17_ReturnAfterSync ==
  (routine = "chunks" /\ num_chunks > 1 /\ pc \in {"return", "done"}) =>
    /\ stream = <<>>
    /\ d_vertex_offsets = lower_bound(offsets, num_chunks - 1, approx_edge_chunk_size)
    /\ \A k \in 1..(num_chunks - 1) :
         /\ h_vertex_offsets[k + 1] = d_vertex_offsets[k]
         /\ h_edge_offsets[k + 1] = d_edge_offsets[k]
         /\ h_edge_offsets[k + 1] = Off(d_vertex_offsets[k])
    /\ pc = "done" => ret = <<h_vertex_offsets, h_edge_offsets>>

C17_Witness ==
  /\ routine = "chunks" /\ num_chunks > 2 /\ pc = "done"
  /\ stream = <<>>
  /\ vertex_boundary[2] >= 1 /\ edge_boundary[3] > edge_boundary[2]

\* the host is inside expand_sparse_offsets, past the read of line 104
ExpandAfterRead ==
  routine = "expand" /\ Len(offsets) >= 1 /\ pc \in {"branch", "seed", "for_each", "scan", "return"}

CallIds == {1, 2}

TwoCallOffsets == {s \in UNION {[1..n -> 0..MaxOff2] : n \in 1..3} : ValidOffsets(s)}

NewCall(offs, base) ==
  [offsets |-> offs, base_idx |-> base, pc |-> "start", stream |-> <<>>,
   num_entries |-> 0, results |-> <<>>, pending |-> {}]

InitTwo ==
  /\ calls \in [CallIds -> {NewCall(o, b) : o \in TwoCallOffsets, b \in {0, 2}}]
  /\ routine = "two_calls"
  /\ offsets = <<0>>
  /\ num_vertices = 0
  /\ num_edges = 0
  /\ approx_edge_chunk_size = 1
  /\ base_idx = 0
  /\ val = <<>>
  /\ ndebug = TRUE
  /\ pc = "done"
  /\ stream = <<>>
  /\ num_chunks = 0
  /\ d_vertex_offsets = <<>>
  /\ d_edge_offsets = <<>>
  /\ h_vertex_offsets = <<>>
  /\ h_edge_offsets = <<>>
  /\ num_entries = 0
  /\ results = <<>>
  /\ pending = {}
  /\ ret = <<>>

single_call == <<routine, offsets, num_vertices, num_edges, approx_edge_chunk_size, base_idx,
                 val, ndebug, pc, stream, chunk_state, expand_state>>

SetCall(c, r) == calls' = [calls EXCEPT ![c] = r] /\ UNCHANGED single_call

At(c, p) == routine = "two_calls" /\ calls[c].pc = p

Running(c, op) ==
  routine = "two_calls" /\ calls[c].stream # <<>> /\ Head(calls[c].stream) = op

ReadIntoAllCalls(c) == CallIds
\* num_entries is a local of the call (line 103): the read writes the caller's own
ReadInto(c) == {c}

\* lines 103-104
CallUpdateHostNumEntries(c) ==
  /\ At(c, "start")
  /\ SetCall(c, [calls[c] EXCEPT !.num_entries = 0,
                                 !.stream = Append(@, "read_last"), !.pc = "alloc"])

\* line 106
CallAllocResults(c) ==
  /\ At(c, "alloc") /\ calls[c].stream = <<>>
  /\ \E g \in Garbage :
       SetCall(c, [calls[c] EXCEPT !.results = [k \in 1..calls[c].num_entries |-> g],
                                   !.pc = "branch"])

\* lines 108-109
CallQueueFill(c) ==
  /\ At(c, "branch") /\ HasEntries(calls[c].num_entries)
  /\ SetCall(c, [calls[c] EXCEPT !.stream = Append(@, "fill"), !.pc = "seed"])

\* line 111
CallSeed(c) ==
  /\ At(c, "seed")
  /\ SetCall(c, [calls[c] EXCEPT
                   !.stream = IF calls[c].base_idx # 0 THEN Append(@, "seed") ELSE @,
                   !.pc = "for_each"])

\* lines 113-123
CallQueueForEach(c) ==
  /\ At(c, "for_each")
  /\ SetCall(c, [calls[c] EXCEPT !.stream = Append(@, "for_each"),
                                 !.pending = 2..Len(calls[c].offsets), !.pc = "scan"])

\* lines 124-125
CallQueueScan(c) ==
  /\ At(c, "scan")
  /\ SetCall(c, [calls[c] EXCEPT !.stream = Append(@, "scan"), !.pc = "return"])

\* line 128
CallReturn(c) ==
  /\ \/ At(c, "return")
     \/ At(c, "branch") /\ ~HasEntries(calls[c].num_entries)
  /\ SetCall(c, [calls[c] EXCEPT !.pc = "done"])

\* line 104 on the device
CallDevReadLast(c) ==
  /\ Running(c, "read_last")
  /\ calls' = [d \in CallIds |->
                 IF d = c
                 THEN [calls[c] EXCEPT !.num_entries = Last(calls[c].offsets),
                                       !.stream = Tail(@)]
                 ELSE IF d \in ReadInto(c)
                      THEN [calls[d] EXCEPT !.num_entries = Last(calls[c].offsets)]
                      ELSE calls[d]]
  /\ UNCHANGED single_call

\* line 109 on the device
CallDevFill(c) ==
  /\ Running(c, "fill")
  /\ SetCall(c, [calls[c] EXCEPT !.results = fill(@), !.stream = Tail(@)])

\* line 111 on the device
CallDevSeed(c) ==
  /\ Running(c, "seed")
  /\ SetCall(c, [calls[c] EXCEPT !.results = [@ EXCEPT ![1] = calls[c].base_idx],
                                 !.stream = Tail(@)])

\* lines 117-123 on the device, one element
CallDevIncrement(c, i) ==
  /\ Running(c, "for_each")
  /\ i \in calls[c].pending
  /\ SetCall(c, [calls[c] EXCEPT !.results = AtomicAdd(@, calls[c].offsets[i]),
                                 !.pending = @ \ {i}])

CallDevForEachDone(c) ==
  /\ Running(c, "for_each")
  /\ calls[c].pending = {}
  /\ SetCall(c, [calls[c] EXCEPT !.stream = Tail(@)])

\* lines 124-125 on the device
CallDevScan(c) ==
  /\ Running(c, "scan")
  /\ SetCall(c, [calls[c] EXCEPT !.results = inclusive_scan(@), !.stream = Tail(@)])

NextTwo ==
  \E c \in CallIds :
    \/ CallUpdateHostNumEntries(c) \/ CallAllocResults(c) \/ CallQueueFill(c)
    \/ CallSeed(c) \/ CallQueueForEach(c) \/ CallQueueScan(c) \/ CallReturn(c)
    \/ CallDevReadLast(c) \/ CallDevFill(c) \/ CallDevSeed(c)
    \/ CallDevForEachDone(c) \/ CallDevScan(c)
    \/ \E i \in 2..3 : CallDevIncrement(c, i)

SpecTwo == InitTwo /\ [][NextTwo]_vars

CallReturned(c) == routine = "two_calls" /\ calls[c].pc = "done" /\ calls[c].stream = <<>>

\* C20: calls share no state: two expand_sparse_offsets calls running
\* concurrently on different streams, each with its own result buffer, produce
\* the outputs of the calls run one after the other, which depend only on
\* each call's own arguments.
C20_NoSharedState ==
  \A c \in CallIds :
    /\ CallReturned(c) =>
         calls[c].results = ExpandInOrder(calls[c].offsets, calls[c].base_idx)
    /\ (routine = "two_calls" /\ calls[c].pc \notin {"start", "alloc"}) =>
         calls[c].num_entries = Last(calls[c].offsets)

C20_Witness ==
  /\ CallReturned(1) /\ CallReturned(2)
  /\ calls[1].offsets # calls[2].offsets
  /\ Len(calls[1].results) = 2 /\ Len(calls[2].results) = 1
  /\ calls[1].base_idx # calls[2].base_idx
  /\ calls[1].results # <<>> /\ calls[1].results[2] # calls[1].results[1]

\* ---- the increment step of expand_sparse_offsets ----

\* the buffer before the first increment: zero filled, position 0 seeded
Seeded(n, base) == [k \in 1..n |-> IF k = 1 THEN base ELSE 0]

\* the for_each elements that have run
Incremented == (2..Len(offsets)) \ pending

\* the for_each kernel is running: fill and seed are behind it
ForEachRunning ==
  /\ routine = "expand" /\ Len(offsets) >= 1
  /\ stream # <<>> /\ Head(stream) = "for_each"

\* every increment has run and the scan has not
BeforeScan ==
  /\ routine = "expand" /\ Len(offsets) >= 1
  /\ pc \in {"scan", "return", "done"}
  /\ pending = {}
  /\ ~Queued("fill") /\ ~Queued("seed")
  /\ \/ stream # <<>> /\ Head(stream) \in {"for_each", "scan"}
     \/ stream = <<>> /\ pc = "scan"

\* C22: the increment step is order-independent and loses no increment: at
\* any point of any interleaving the buffer has gained exactly one per element
\* run so far whose offset is inside the buffer, and when all have run the
\* buffer is the one the in-order run gives.
C22_OrderIndependent ==
  /\ ForEachRunning =>
       PrefixSum(results, Len(results)) =
         base_idx + Cardinality({i \in Incremented : offsets[i] < Last(offsets)})
  /\ BeforeScan =>
       results = AddInIndexOrder(Seeded(Last(offsets), base_idx), offsets, 2)

C22_Witness ==
  /\ ForEachRunning
  /\ Len(offsets) = 4 /\ offsets[2] = offsets[3] /\ offsets[2] < Last(offsets)
  /\ Incremented = {3, 4}
  /\ results[offsets[2] + 1] = 1

\* C23: after the increment step and before the scan every position p of the
\* buffer holds (base_idx if p = 0, else 0) plus the number of indices i >= 1
\* with offsets[i] = p, and the total added is the number of entries of
\* offsets[1..] smaller than offsets[last].
C23_SparseSignal ==
  BeforeScan =>
    /\ Len(results) = Last(offsets)
    /\ \A p \in 0..(Len(results) - 1) :
         results[p + 1] = (IF p = 0 THEN base_idx ELSE 0)
                          + Cardinality({i \in 1..(Len(offsets) - 1) : Off(i) = p})
    /\ PrefixSum(results, Len(results)) - (IF Len(results) > 0 THEN base_idx ELSE 0)
         = Cardinality({i \in 1..(Len(offsets) - 1) : Off(i) < Last(offsets)})

C23_Witness ==
  /\ BeforeScan
  /\ stream = <<"scan">>
  /\ base_idx # 0
  /\ Len(results) >= 3
  /\ results[1] = base_idx + 1
  /\ results[3] = 1

\* C24: on the single-chunk path compute_offset_aligned_edge_chunks queues
\* no device operation, allocates nothing on the stream and never
\* synchronises; the stream's queue is left unchanged.
C24_SingleChunkNoDeviceWork ==
  (routine = "chunks" /\ pc # "start" /\ num_chunks <= 1) =>
    /\ stream = <<>>
    /\ d_vertex_offsets = <<>> /\ d_edge_offsets = <<>>
    /\ h_vertex_offsets = <<>> /\ h_edge_offsets = <<>>
    /\ pc \in {"branch", "done"}

C24_Witness ==
  /\ routine = "chunks" /\ pc = "done" /\ num_chunks = 1
  /\ num_vertices >= 2 /\ num_edges >= 2
  /\ stream = <<>> /\ d_vertex_offsets = <<>>

\* one element of the for_each has just run
IncrementStep == pending' # pending /\ pending' \subseteq pending

\* C25: for every offset array with non-negative entries, monotone or not,
\* every increment targets an index inside the result buffer; entries of
\* offsets[1..] that are >= offsets[last], the final entry among them, cause
\* no write.
C25_IncrementInBounds ==
  [][(IncrementStep /\ Len(offsets) >= 1) =>
       /\ DOMAIN results' = 1..Last(offsets)
       /\ \E i \in pending \ pending' :
            IF offsets[i] >= Last(offsets)
            THEN results' = results
            ELSE /\ 0 <= offsets[i] /\ offsets[i] < Len(results)
                 /\ results' = [results EXCEPT ![offsets[i] + 1] = @ + 1]
    ]_vars

C25_Witness ==
  /\ ForEachRunning
  /\ ~NonDecreasing(offsets)
  /\ \E i \in Incremented : offsets[i] > Last(offsets)
  /\ Len(offsets) \in Incremented
  /\ Len(results) >= 1

\* ---- the interior cut points of compute_offset_aligned_edge_chunks ----

\* the search of lines 56-61 has run
SearchDone ==
  /\ routine = "chunks" /\ MultiChunk(num_chunks)
  /\ pc \notin {"start", "branch"}
  /\ ~Queued("lower_bound")

\* C26: on the multi-chunk path every interior search target
\* k * approx_edge_chunk_size, 1 <= k <= num_chunks - 1, is strictly between
\* 0 and num_edges, so every interior vertex cut point lies in
\* 1..num_vertices and the gather reads offsets at no index beyond
\* num_vertices.
C26_TargetsInRange ==
  /\ (routine = "chunks" /\ pc # "start" /\ MultiChunk(num_chunks)) =>
       \A k \in 1..(num_chunks - 1) :
         /\ search_offset(k, approx_edge_chunk_size) = k * approx_edge_chunk_size
         /\ 0 < search_offset(k, approx_edge_chunk_size)
         /\ search_offset(k, approx_edge_chunk_size) < num_edges
  /\ SearchDone =>
       /\ Len(d_vertex_offsets) = num_chunks - 1
       /\ \A k \in 1..(num_chunks - 1) :
            /\ d_vertex_offsets[k] \in 1..num_vertices
            /\ d_vertex_offsets[k] + 1 \in DOMAIN offsets

C26_Witness ==
  /\ SearchDone /\ Queued("gather")
  /\ num_chunks >= 3
  /\ d_vertex_offsets[1] = 1
  /\ d_vertex_offsets[num_chunks - 1] = num_vertices

\* the largest group size offsets[g+1] - offsets[g]
LargestGroup ==
  IF Len(offsets) <= 1 THEN 0
  ELSE CHOOSE d \in 0..Last(offsets) :
         /\ \E g \in 0..(Len(offsets) - 2) : Off(g + 1) - Off(g) = d
         /\ \A g \in 0..(Len(offsets) - 2) : Off(g + 1) - Off(g) <= d

\* C27: every chunk returned by compute_offset_aligned_edge_chunks is bounded
\* in size: for every valid input and every chunk i, edge_boundary[i] >=
\* i * approx_edge_chunk_size and edge_boundary[i+1] - edge_boundary[i] <
\* approx_edge_chunk_size + d, d the largest group size; a chunk may be empty.
C27_ChunkBounded ==
  ChunksReturned =>
    \A i \in 0..(Len(edge_boundary) - 2) :
      /\ edge_boundary[i + 1] >= i * approx_edge_chunk_size
      /\ edge_boundary[i + 2] - edge_boundary[i + 1]
           < approx_edge_chunk_size + LargestGroup
      /\ edge_boundary[i + 2] - edge_boundary[i + 1] >= 0

C27_Witness ==
  /\ ChunksReturned /\ num_chunks >= 3
  /\ \E i \in 1..(Len(edge_boundary) - 1) :
       /\ edge_boundary[i + 1] = edge_boundary[i]
       /\ vertex_boundary[i + 1] = vertex_boundary[i]
  /\ \E i \in 1..(Len(edge_boundary) - 1) :
       edge_boundary[i + 1] - edge_boundary[i] > approx_edge_chunk_size

\* ---- the seed of position 0 ----

\* the seed of line 111 runs in this step
SeedStep == stream # <<>> /\ Head(stream) = "seed" /\ stream' = Tail(stream)

\* no element of the for_each has run yet
NoIncrementYet == pc \notin {"scan", "return", "done"} \/ pending = 2..Len(offsets)

\* the number of leading empty groups of a non-decreasing offset array
LeadingEmpty == Cardinality({i \in 1..(Len(offsets) - 1) : Off(i) = 0})

\* C28: when the first k groups are empty (offsets[0] = ... = offsets[k] = 0
\* < offsets[k+1]) the first entry of the result of expand_sparse_offsets is
\* base_idx + k for every base_idx, zero or not: the seed of position 0 is
\* never applied after an increment at position 0 and never overwrites one.
C28_SeedBeforeIncrements ==
  /\ [](( /\ ExpandReturned /\ Len(offsets) >= 2
          /\ NonDecreasing(offsets) /\ Off(0) = 0 /\ Last(offsets) > 0 ) =>
         /\ \E k \in 0..(Len(offsets) - 2) :
              /\ \A j \in 0..k : Off(j) = 0
              /\ Off(k + 1) > 0
              /\ results[1] = base_idx + k
         /\ results[1] = base_idx + LeadingEmpty)
  /\ [][SeedStep =>
          /\ NoIncrementYet
          /\ results[1] = 0
          /\ results'[1] = base_idx]_vars
  /\ [][(IncrementStep /\ Len(offsets) >= 1 /\ results'[1] # results[1]) =>
          /\ ~Queued("seed") /\ ~Queued("fill")
          /\ results'[1] = results[1] + 1]_vars

C28_Witness ==
  /\ ExpandReturned /\ NonDecreasing(offsets)
  /\ Len(offsets) = 4 /\ Off(0) = 0 /\ Off(2) = 0 /\ Off(3) > 0
  /\ base_idx = 2
  /\ results[1] = 4

\* ---- the shape of the expanded result ----

\* the groups with at least one entry
NonEmptyGroups == {g \in 0..(Len(offsets) - 2) : Off(g) < Off(g + 1)}

LastNonEmptyGroup == CHOOSE g \in NonEmptyGroups : \A h \in NonEmptyGroups : h <= g

\* a non-decreasing offset array of length >= 1 whose expansion is not empty
ExpandedNonEmpty ==
  /\ ExpandReturned /\ Len(offsets) >= 1
  /\ NonDecreasing(offsets) /\ Off(0) >= 0
  /\ Len(results) > 0

\* C29 as stated: for every valid offset array with n groups and a non-empty
\* result, the result is non-decreasing, every entry lies in
\* base_idx .. base_idx + n - 1, and the last entry is base_idx + the index of
\* the last non-empty group.
C29_Original ==
  ExpandedNonEmpty =>
    /\ NonDecreasing(results)
    /\ \A j \in 1..Len(results) :
         base_idx <= results[j] /\ results[j] <= base_idx + (Len(offsets) - 1) - 1
    /\ NonEmptyGroups # {}
    /\ results[Len(results)] = base_idx + LastNonEmptyGroup

\* C29 amended: for every valid offset array with n groups and a non-empty
\* result, the result is non-decreasing; when some group is non-empty every
\* entry lies in base_idx .. base_idx + n - 1 and the last entry is base_idx +
\* the index of the last non-empty group; when no group is non-empty
\* (offsets[0] = ... = offsets[n] > 0) every entry is base_idx.
C29_ResultShape ==
  ExpandedNonEmpty =>
    /\ NonDecreasing(results)
    /\ NonEmptyGroups # {} =>
         /\ \A j \in 1..Len(results) :
              base_idx <= results[j] /\ results[j] <= base_idx + (Len(offsets) - 1) - 1
         /\ results[Len(results)] = base_idx + LastNonEmptyGroup
    /\ NonEmptyGroups = {} =>
         \A j \in 1..Len(results) : results[j] = base_idx

C29_Witness ==
  /\ ExpandedNonEmpty
  /\ Len(offsets) = 4 /\ Off(0) = 0
  /\ Off(1) > 0 /\ Off(2) > Off(1) /\ Off(3) = Off(2)
  /\ base_idx = -1
  /\ results[Len(results)] = 0

\* ---- the chunk count in w-bit arithmetic ----

\* q is the ceiling of a / b
IsCeiling(q, a, b) == q * b >= a /\ (q - 1) * b < a

\* C30: with w-bit unsigned arithmetic the chunk count
\* (num_edges + approx_edge_chunk_size - 1) / approx_edge_chunk_size equals
\* ceil(num_edges / approx_edge_chunk_size) for all num_edges >= 0 and
\* approx_edge_chunk_size > 0 whose sum num_edges + approx_edge_chunk_size - 1
\* is below 2^w, and every interior target k * approx_edge_chunk_size is then
\* below 2^w as well.
C30_CeilingNoOverflow ==
  (routine = "chunks" /\ pc # "start") =>
    /\ num_edges + approx_edge_chunk_size - 1 < SizeMod =>
         /\ num_chunks = CeilDiv(num_edges, approx_edge_chunk_size)
         /\ \A k \in 1..(num_chunks - 1) :
              /\ k * approx_edge_chunk_size < SizeMod
              /\ search_offset(k, approx_edge_chunk_size) = k * approx_edge_chunk_size
    /\ \A ne \in 0..(SizeMod - 1) : \A cs \in 1..(SizeMod - 1) :
         ne + cs - 1 < SizeMod =>
           /\ IsCeiling(NumChunks(ne, cs), ne, cs)
           /\ \A k \in 1..(NumChunks(ne, cs) - 1) :
                k * cs < SizeMod /\ search_offset(k, cs) = k * cs

C30_Witness ==
  /\ routine = "chunks" /\ pc = "branch"
  /\ approx_edge_chunk_size = SizeMod - 1
  /\ num_edges = 1
  /\ num_chunks = 1

\* ---- termination ----

\* the host thread runs whenever it is not blocked and the stream executes
\* its queued operations whenever it has any
\* the calls whose offset array is non-decreasing, as the callers pass it
InitFair == Init /\ (routine = "expand" => NonDecreasing(offsets))

SpecFair == InitFair /\ [][Next]_vars /\ WF_vars(Next)

\* a call with valid inputs: any call of the chunk routine, and a call of the
\* expander with at least one offset
ValidCall ==
  \/ routine = "chunks"
  \/ routine = "expand" /\ Len(offsets) >= 1

\* C21: each routine, once called with valid inputs, runs to completion:
\* under fair execution of the stream's queued operations
\* compute_offset_aligned_edge_chunks and expand_sparse_offsets each
\* eventually return, and no path waits forever or retries.
C21_RunsToCompletion ==
  (ValidCall /\ pc = "start") ~> (pc = "done" /\ stream = <<>>)

C21_Witness ==
  /\ ValidCall /\ pc = "done" /\ stream = <<>>
  /\ \/ routine = "chunks" /\ num_chunks = 2 /\ Len(ret[1]) = 3
     \/ routine = "expand" /\ Len(offsets) = 3 /\ Len(results) = 2

====
